---- MODULE Spec2Model ----
(***************************************************************************)
(* The interactive 2D fluid widget of src/src/config/site.ts: the          *)
(* red-black pressure solver, the velocity projection, the semi-Lagrangian *)
(* advection (local-position samplers, lines 249-473) and the SVG arrow    *)
(* handlers (lines 474-702).  Lines 40-248 of the file hold an earlier      *)
(* copy of the solver whose samplers take world positions.                 *)
(*                                                                         *)
(* Numbers.  The source computes on JavaScript numbers.  The model keeps   *)
(* every number as an integer count of 1/Scale (three decimals, the        *)
(* precision of the literal 0.016): + and - are exact, * and / round to    *)
(* the nearest representable value, as the source's arithmetic does at its *)
(* own (finer) precision.  Array indices and loop counters are plain       *)
(* integers.                                                               *)
(***************************************************************************)
EXTENDS Integers, Sequences, FiniteSets, TLC

\* ------------------------------------------------------------------ bounds
\* Number of pseudo-random streams Math.random() is drawn from.
MaxSeed == 2
\* Operations applied to an input state in SpecOps.
MaxSteps == 1
\* Ticks of the widget loop explored in Spec.
MaxTicks == 2
\* Single calls of CalculatePressure explored in SpecCell.
MaxCalls == 1
\* Consecutive ticks of the end-to-end run SpecRun.
RunTicks == 50

\* --------------------------------------------------------------- constants
Scale == 1000
gridSize == 8
DENSITY == 600
DELTA_X == 1000
DELTA_TIME == 16
\* cellSize, the pixel width of a cell handed to ConfigureSVG (40 px).
cellSize == 40000

\* -------------------------------------------------------------- arithmetic
\* n/d rounded to the nearest integer, halves away from zero (d > 0).
Round(n, d) ==
    IF n >= 0 THEN (2 * n + d) \div (2 * d)
              ELSE -((2 * (-n) + d) \div (2 * d))

Abs(x) == IF x >= 0 THEN x ELSE -x

\* a * b and a / b on numbers: Round(a * b, Scale) and Round(a * Scale, b),
\* computed from the whole and the fractional parts of the operands (of
\* a / b) so that the intermediate products stay small.
MulAbs(a, b) ==
    (a \div Scale) * (b \div Scale) * Scale
        + (a \div Scale) * (b % Scale) + (a % Scale) * (b \div Scale)
        + Round((a % Scale) * (b % Scale), Scale)
DivAbs(a, b) == (a \div b) * Scale + Round((a % b) * Scale, b)

Mul(a, b) ==
    IF (a >= 0) = (b >= 0) THEN MulAbs(Abs(a), Abs(b))
                           ELSE -MulAbs(Abs(a), Abs(b))
Div(a, b) == IF a >= 0 THEN DivAbs(a, b) ELSE -DivAbs(-a, b)

\* The literal 0.5.
Half == Scale \div 2

MathMax(a, b) == IF a >= b THEN a ELSE b
MathMin(a, b) == IF a <= b THEN a ELSE b
\* Math.floor, as an integer (an array index).
MathFloor(x) == x \div Scale

\* TRUE, once x has been computed: orders the evaluation of a loop's halves.
Evaluated(x) == x = x

Rows == 0 .. (gridSize - 1)
Cols == 0 .. (gridSize - 1)
Lines == 0 .. gridSize

\* arr[rc[1]][rc[2]] is an entry of the array.
InBounds(arr, rc) == rc[1] \in DOMAIN arr /\ rc[2] \in DOMAIN arr[rc[1]]

\* The array after arr[row][col] = val.  An assignment past the end of a
\* row lengthens the row; one to a row the array does not have throws, and
\* the model lets it add the row: either way the array's shape shows it.
Store(arr, row, col, val) ==
    IF InBounds(arr, <<row, col>>)
    THEN [arr EXCEPT ![row][col] = val]
    ELSE [r \in DOMAIN arr \cup {row} |->
            [c \in (IF r \in DOMAIN arr THEN DOMAIN arr[r] ELSE {})
                       \cup (IF r = row THEN {col} ELSE {}) |->
                IF r = row /\ c = col THEN val ELSE arr[r][c]]]

\* The guard of a loop nest that assigns in every iteration.
Always(rowRange, colRange) ==
    [row \in rowRange |-> [col \in colRange |-> TRUE]]

\* The array after a loop nest that runs row over rowRange and col over
\* colRange and does arr[row][col] = val[row][col] where guard[row][col]
\* holds, every entry being assigned at most once (computed in full before
\* it is used).  Assignments inside the array keep its shape; an assignment
\* outside it makes the array grow.
Assigned(arr, rowRange, colRange, guard, val) ==
    LET NewCols(row) ==
            IF row \in rowRange THEN {col \in colRange : guard[row][col]}
                                ELSE {}
        OldCols(row) == IF row \in DOMAIN arr THEN DOMAIN arr[row] ELSE {}
        after ==
            [row \in DOMAIN arr \cup {r \in rowRange : NewCols(r) # {}} |->
                [col \in OldCols(row) \cup NewCols(row) |->
                    IF row \in rowRange /\ col \in colRange /\ guard[row][col]
                    THEN val[row][col]
                    ELSE arr[row][col]]]
        inShape ==
            /\ rowRange \subseteq DOMAIN arr
            /\ \A row \in rowRange : colRange \subseteq DOMAIN arr[row]
        sameShape ==
            [row \in DOMAIN arr |->
                [col \in DOMAIN arr[row] |->
                    IF row \in rowRange /\ col \in colRange /\ guard[row][col]
                    THEN val[row][col]
                    ELSE arr[row][col]]]
    IN  IF inShape
        THEN IF Evaluated(sameShape) THEN sameShape ELSE arr
        ELSE IF Evaluated(after) THEN after ELSE arr

\* Array shapes: cellValues N x N, horizontalArrows N x (N+1),
\* verticalArrows (N+1) x N.
ZeroCells == [row \in Rows |-> [col \in Cols |-> 0]]
ZeroHorizontal == [row \in Rows |-> [col \in Lines |-> 0]]
ZeroVertical == [row \in Lines |-> [col \in Cols |-> 0]]

\* ---------------------------------------------------------------- Pressure
\* The faces right of column 7 and below row 7 read like any other.
VelocityTermMissingWall(h, v, row, col) ==
    LET vLeft == h[row][col]
        vRight == h[row][col + 1]
        vUp == v[row][col]
        vDown == v[row + 1][col]
    IN  vRight - vLeft + vDown - vUp

\* The face velocities summed, none subtracted.
VelocityTermAllAdded(h, v, row, col) ==
    LET vLeft == h[row][col]
        vRight == IF col = 7 THEN 0 ELSE h[row][col + 1]
        vUp == v[row][col]
        vDown == IF row = 7 THEN 0 ELSE v[row + 1][col]
    IN  vRight + vLeft + vDown + vUp

\* The divergence term of CalculatePressure (lines 269-275).
VelocityTerm(h, v, row, col) ==
    LET vLeft == h[row][col]
        vRight == IF col = 7 THEN 0 ELSE h[row][col + 1]
        vUp == v[row][col]
        vDown == IF row = 7 THEN 0 ELSE v[row + 1][col]
    IN  vRight - vLeft + vDown - vUp

\* The left neighbour taken one row up: a diagonal cell, of the cell's own
\* colour.
PressureTermDiagonal(cv, row, col) ==
    LET xEdge == col = 0 \/ col = 7
        yEdge == row = 0 \/ row = 7
        pLeft == IF xEdge \/ yEdge THEN 0 ELSE cv[row - 1][col - 1]
        pRight == IF xEdge THEN 0 ELSE cv[row][col + 1]
        pUp == IF yEdge THEN 0 ELSE cv[row - 1][col]
        pDown == IF yEdge THEN 0 ELSE cv[row + 1][col]
    IN  pLeft + pRight + pUp + pDown

\* The neighbour-pressure sum of CalculatePressure (lines 262-274): on an
\* edge column both horizontal neighbours read as 0, on an edge row both
\* vertical neighbours.
PressureTerm(cv, row, col) ==
    LET xEdge == col = 0 \/ col = 7
        yEdge == row = 0 \/ row = 7
        pLeft == IF xEdge THEN 0 ELSE cv[row][col - 1]
        pRight == IF xEdge THEN 0 ELSE cv[row][col + 1]
        pUp == IF yEdge THEN 0 ELSE cv[row - 1][col]
        pDown == IF yEdge THEN 0 ELSE cv[row + 1][col]
    IN  pLeft + pRight + pUp + pDown

\* The cells whose pressure CalculatePressure(row, col) reads (lines
\* 262-267).
PressureReads(row, col) ==
    LET xEdge == col = 0 \/ col = 7
        yEdge == row = 0 \/ row = 7
    IN  (IF xEdge THEN {} ELSE {<<row, col - 1>>, <<row, col + 1>>})
            \cup (IF yEdge THEN {} ELSE {<<row - 1, col>>, <<row + 1, col>>})

\* The value without the division by 4.0.
NewPressureUndivided(cv, h, v, row, col) ==
    LET pressure == PressureTerm(cv, row, col)
        velocity == VelocityTerm(h, v, row, col)
    IN  pressure - Div(Mul(Mul(DENSITY, DELTA_X), velocity), DELTA_TIME)

\* The value CalculatePressure stores in cellValues[row][col] (line 277).
NewPressure(cv, h, v, row, col) ==
    LET pressure == PressureTerm(cv, row, col)
        velocity == VelocityTerm(h, v, row, col)
    IN  Div(pressure - Div(Mul(Mul(DENSITY, DELTA_X), velocity), DELTA_TIME),
            4 * Scale)

CalculatePressure(cv, h, v, row, col) ==
    Store(cv, row, col, NewPressure(cv, h, v, row, col))

\* The loop nests of SolvePressureRedBlack visit the cells in row-major
\* order; the i-th cell visited is (i \div gridSize, i % gridSize).  Visit
\* carries st = [cv, calls]: the array and the cells CalculatePressure has
\* been called on, in call order.
NumCells == gridSize * gridSize

\* The body of a loop nest at cell i: a call when the parity test passes.
VisitCell(st, h, v, parity, i) ==
    LET row == i \div gridSize
        col == i % gridSize
    IN  IF ((row + col) % 2) = parity
        THEN [cv |-> CalculatePressure(st.cv, h, v, row, col),
              calls |-> Append(st.calls, <<row, col>>)]
        ELSE st

\* One colour phase: cells lo .. hi-1 visited in order (the range is
\* halved to keep the evaluation shallow; the order of visits is the
\* loops').
RECURSIVE RelaxPhase(_, _, _, _, _, _)
RelaxPhase(st, h, v, parity, lo, hi) ==
    IF hi <= lo THEN st
    ELSE IF hi = lo + 1 THEN VisitCell(st, h, v, parity, lo)
    ELSE LET mid == (lo + hi) \div 2
             first == RelaxPhase(st, h, v, parity, lo, mid)
         IN  IF Evaluated(first)
             THEN RelaxPhase(first, h, v, parity, mid, hi)
             ELSE st

\* A single row-major pass that calls CalculatePressure on every cell.
RECURSIVE RelaxSinglePass(_, _, _, _, _)
RelaxSinglePass(st, h, v, lo, hi) ==
    IF hi <= lo THEN st
    ELSE IF hi = lo + 1
         THEN VisitCell(st, h, v, ((lo \div gridSize) + (lo % gridSize)) % 2, lo)
    ELSE LET mid == (lo + hi) \div 2
             first == RelaxSinglePass(st, h, v, lo, mid)
         IN  IF Evaluated(first)
             THEN RelaxSinglePass(first, h, v, mid, hi)
             ELSE st

SolvePressureSinglePass(cv, h, v) ==
    RelaxSinglePass([cv |-> cv, calls |-> <<>>], h, v, 0, NumCells)

\* Every cell computed from the pressures the sweep began with.
SolvePressureSimultaneous(cv, h, v) ==
    [cv |-> [row \in Rows |-> [col \in Cols |->
                CalculatePressure(cv, h, v, row, col)[row][col]]],
     calls |-> RelaxSinglePass([cv |-> cv, calls |-> <<>>],
                               h, v, 0, NumCells).calls]

\* A sweep that stops after its first loop nest.
SolvePressureRedOnly(cv, h, v) ==
    RelaxPhase([cv |-> cv, calls |-> <<>>], h, v, 0, 0, NumCells)

SolvePressureRedBlack(cv, h, v) ==
    LET red == RelaxPhase([cv |-> cv, calls |-> <<>>], h, v, 0, 0, NumCells)
    IN  RelaxPhase(red, h, v, 1, 0, NumCells)

\* --------------------------------------------------------------- SVG arrows
\* ConfigureSVG appends, per face, a circle, the visible line and the
\* hit-area line, in this order: the vertical faces (lineIdx, col) first,
\* then the horizontal faces (row, lineIdx).  Both lines of a face carry
\* data-type, so "line[data-type]" selects the visible line and then the
\* hit area of face 0, then those of face 1, and so on.
NumVertical == (gridSize + 1) * gridSize
NumFaces == 2 * (gridSize + 1) * gridSize
Faces == 0 .. (NumFaces - 1)
Kinds == <<"line", "hit">>

\* The static attributes of the two lines of face f (createVerticalArrow,
\* createHorizontalArrow, with x and y from ConfigureSVG).
Face(f) ==
    IF f < NumVertical
    THEN LET lineIdx == f \div gridSize
             col == f % gridSize
         IN  [type |-> "vertical", lineIdx |-> lineIdx, col |-> col, row |-> 0,
              x1 |-> col * cellSize + Div(cellSize, 2 * Scale),
              y1 |-> lineIdx * cellSize]
    ELSE LET g == f - NumVertical
             row == g \div (gridSize + 1)
             lineIdx == g % (gridSize + 1)
         IN  [type |-> "horizontal", lineIdx |-> lineIdx, col |-> 0, row |-> row,
              x1 |-> lineIdx * cellSize,
              y1 |-> row * cellSize + Div(cellSize, 2 * Scale)]

\* The end points after ConfigureSVG: every line ends where it starts.
ConfigureSVG ==
    [f \in Faces |-> [line |-> [x2 |-> Face(f).x1, y2 |-> Face(f).y1],
                      hit |-> [x2 |-> Face(f).x1, y2 |-> Face(f).y1]]]

\* line.nextElementSibling && line.nextElementSibling.tagName === "line":
\* true of a visible line (its hit area follows it), false of a hit area
\* (the next face's circle, or nothing, follows it).
NextIsLine(kind) == kind = "line"

\* Set x2, y2 of the line `kind` of a face and, when its next sibling is a
\* line, of that sibling (the face's hit area) too.  fc = [line, hit].
SetLineAndSibling(fc, kind, x2, y2) ==
    IF NextIsLine(kind)
    THEN [line |-> [x2 |-> x2, y2 |-> y2], hit |-> [x2 |-> x2, y2 |-> y2]]
    ELSE [fc EXCEPT !.hit = [x2 |-> x2, y2 |-> y2]]

\* ---------------------------------------------------------------- Velocity
\* The boundary rows left as they are.
ProjectVerticalKeepBoundary(cv, v) ==
    Assigned(v, Lines, Cols,
             Always(Lines, Cols),
             [row \in Lines |-> [col \in Cols |->
                 IF row = 0 \/ row = 8
                 THEN v[row][col]
                 ELSE v[row][col] - Mul(Div(DELTA_TIME, DENSITY),
                                        cv[row][col] - cv[row - 1][col])]])

\* The first loop nest of CalculateVelocities (lines 305-315).  Every entry
\* is written once and reads only cellValues and its own old value.
ProjectVertical(cv, v) ==
    Assigned(v, Lines, Cols,
             Always(Lines, Cols),
             [row \in Lines |-> [col \in Cols |->
                 IF row = 0 \/ row = 8
                 THEN 0
                 ELSE v[row][col] - Mul(Div(DELTA_TIME, DENSITY),
                                        cv[row][col] - cv[row - 1][col])]])

\* The pressure difference subtracted twice from every interior face.
ProjectHorizontalTwice(cv, h) ==
    Assigned(h, Rows, Lines,
             Always(Rows, Lines),
             [row \in Rows |-> [col \in Lines |->
                 IF col = 0 \/ col = 8
                 THEN 0
                 ELSE h[row][col] - Mul(Div(DELTA_TIME, DENSITY),
                                        cv[row][col] - cv[row][col - 1])
                                  - Mul(Div(DELTA_TIME, DENSITY),
                                        cv[row][col] - cv[row][col - 1])]])

\* The boundary columns updated like the others, the pressure outside the
\* grid read as zero.
ProjectHorizontalOpenWall(cv, h) ==
    Assigned(h, Rows, Lines,
             Always(Rows, Lines),
             [row \in Rows |-> [col \in Lines |->
                 h[row][col] - Mul(Div(DELTA_TIME, DENSITY),
                                  (IF col = 8 THEN 0 ELSE cv[row][col])
                                  - (IF col = 0 THEN 0 ELSE cv[row][col - 1]))]])

\* The second loop nest (lines 317-328).
ProjectHorizontal(cv, h) ==
    Assigned(h, Rows, Lines,
             Always(Rows, Lines),
             [row \in Rows |-> [col \in Lines |->
                 IF col = 0 \/ col = 8
                 THEN 0
                 ELSE h[row][col] - Mul(Div(DELTA_TIME, DENSITY),
                                        cv[row][col] - cv[row][col - 1])]])

\* "Update the arrows" (lines 331-370): the callback on one line of face f.
\* The velocity added to the start coordinate as it is, not multiplied by
\* cellSize.
UpdateArrowUnscaled(fc, h, v, f, kind) ==
    LET e == Face(f)
    IN  IF e.type = "vertical"
        THEN LET newY == e.y1 + v[e.lineIdx][e.col]
             IN  SetLineAndSibling(fc, kind, e.x1, newY)
        ELSE LET newX == e.x1 + h[e.row][e.lineIdx]
             IN  SetLineAndSibling(fc, kind, newX, e.y1)

UpdateArrow(fc, h, v, f, kind) ==
    LET e == Face(f)
    IN  IF e.type = "vertical"
        THEN LET newY == e.y1 + Mul(v[e.lineIdx][e.col], cellSize)
             IN  SetLineAndSibling(fc, kind, e.x1, newY)
        ELSE LET newX == e.x1 + Mul(h[e.row][e.lineIdx], cellSize)
             IN  SetLineAndSibling(fc, kind, newX, e.y1)

\* The forEach: a callback writes only lines of its own face, so the lines
\* of each face see the callback on the visible line, then the one on the
\* hit area.
UpdateArrows(svg, h, v) ==
    [f \in Faces |->
        UpdateArrow(UpdateArrow(svg[f], h, v, f, Kinds[1]), h, v, f, Kinds[2])]

\* --------------------------------------------------------------- Advection
\* "+ t" written for "* t".
lerpPlusT(a, b, t) == a + (b - a) + t

lerp(a, b, t) == a + Mul(b - a, t)

\* The indices without the clamping of lines 391-394.
XIndicesUnclamped(localPos) ==
    LET px == localPos[1]
        py == localPos[2] - Half
    IN  [left |-> MathFloor(px), right |-> MathFloor(px) + 1,
         bottom |-> MathFloor(py), top |-> MathFloor(py) + 1]

\* The four indices GetVelocityXAtLocalPos reads with (lines 382-394);
\* localPos = <<x, y>>.
XIndices(localPos) ==
    LET px == localPos[1]
        py == localPos[2] - Half
    IN  [left |-> MathMax(0, MathMin(8, MathFloor(px))),
         right |-> MathMax(0, MathMin(8, MathFloor(px) + 1)),
         bottom |-> MathMax(0, MathMin(7, MathFloor(py))),
         top |-> MathMax(0, MathMin(7, MathFloor(py) + 1))]

\* Those of GetVelocityYAtLocalPos (lines 405-416).
YIndices(localPos) ==
    LET px == localPos[1] - Half
        py == localPos[2]
    IN  [left |-> MathMax(0, MathMin(7, MathFloor(px))),
         right |-> MathMax(0, MathMin(7, MathFloor(px) + 1)),
         bottom |-> MathMax(0, MathMin(8, MathFloor(py))),
         top |-> MathMax(0, MathMin(8, MathFloor(py) + 1))]

\* The (row, column) pairs a sampler reads its array at, in reading order
\* (lines 399-400, 421-422).
Reads(i) ==
    << <<i.top, i.left>>, <<i.top, i.right>>,
       <<i.bottom, i.left>>, <<i.bottom, i.right>> >>

\* A sample left of column 0 or right of column 8 reads as zero.
GetVelocityXZeroOutside(localPos, h) ==
    LET px == localPos[1]
        py == localPos[2] - Half
        i == XIndices(localPos)
        xFrac == px - MathFloor(px) * Scale
        yFrac == py - MathFloor(py) * Scale
        valueTop == lerp(h[i.top][i.left], h[i.top][i.right], xFrac)
        valueBottom == lerp(h[i.bottom][i.left], h[i.bottom][i.right], xFrac)
    IN  IF px < 0 \/ px > 8 * Scale THEN 0
        ELSE lerp(valueBottom, valueTop, yFrac)

GetVelocityXAtLocalPos(localPos, h) ==
    LET px == localPos[1]
        py == localPos[2] - Half
        i == XIndices(localPos)
        xFrac == px - MathFloor(px) * Scale
        yFrac == py - MathFloor(py) * Scale
        valueTop == lerp(h[i.top][i.left], h[i.top][i.right], xFrac)
        valueBottom == lerp(h[i.bottom][i.left], h[i.bottom][i.right], xFrac)
    IN  lerp(valueBottom, valueTop, yFrac)

\* The vertical samples taken as if they sat at the cells' left edges: no
\* half-cell offset in x.
GetVelocityYNoStagger(localPos, v) ==
    LET px == localPos[1]
        py == localPos[2]
        i == YIndices(<<px + Half, py>>)
        xFrac == px - MathFloor(px) * Scale
        yFrac == py - MathFloor(py) * Scale
        valueTop == lerp(v[i.top][i.left], v[i.top][i.right], xFrac)
        valueBottom == lerp(v[i.bottom][i.left], v[i.bottom][i.right], xFrac)
    IN  lerp(valueBottom, valueTop, yFrac)

\* A sample above row 0 or below row 8 reads as zero.
GetVelocityYZeroOutside(localPos, v) ==
    LET px == localPos[1] - Half
        py == localPos[2]
        i == YIndices(localPos)
        xFrac == px - MathFloor(px) * Scale
        yFrac == py - MathFloor(py) * Scale
        valueTop == lerp(v[i.top][i.left], v[i.top][i.right], xFrac)
        valueBottom == lerp(v[i.bottom][i.left], v[i.bottom][i.right], xFrac)
    IN  IF py < 0 \/ py > 8 * Scale THEN 0
        ELSE lerp(valueBottom, valueTop, yFrac)

GetVelocityYAtLocalPos(localPos, v) ==
    LET px == localPos[1] - Half
        py == localPos[2]
        i == YIndices(localPos)
        xFrac == px - MathFloor(px) * Scale
        yFrac == py - MathFloor(py) * Scale
        valueTop == lerp(v[i.top][i.left], v[i.top][i.right], xFrac)
        valueBottom == lerp(v[i.bottom][i.left], v[i.bottom][i.right], xFrac)
    IN  lerp(valueBottom, valueTop, yFrac)

\* What a sampler call returns: a number when all its reads are entries of
\* the array, and no number otherwise (a read past the end of a row gives
\* undefined, one in a missing row throws).
Returned(arr, reads, value) ==
    IF \A n \in 1 .. Len(reads) : InBounds(arr, reads[n])
    THEN [defined |-> TRUE, value |-> value]
    ELSE [defined |-> FALSE, value |-> 0]

\* Math.trunc and the remainder x % 1.0, which keeps the sign of x.
MathTrunc(x) == IF x >= 0 THEN x \div Scale ELSE -((-x) \div Scale)
Rem1(x) == IF x >= 0 THEN x % Scale ELSE -((-x) % Scale)

\* The grid coordinates of a world position (lines 173-176, 192-195);
\* worldPos = <<x, y>>, cs the cell size.
WorldToGrid(worldPos, cs) ==
    LET size == gridSize * cs
    IN  [px |-> Div(worldPos[1] + Div(size, 2 * Scale), cs),
         py |-> Div(worldPos[2] + Div(size, 2 * Scale), cs)]

\* The four indices both world-position samplers read with (lines 178-181,
\* 197-200): left and bottom clamped to 0..gridSize-1, right and top one
\* more.
WorldIndices(worldPos, cs) ==
    LET p == WorldToGrid(worldPos, cs)
        left == MathMin(MathMax(0, MathTrunc(p.px)), gridSize - 1)
        bottom == MathMin(MathMax(0, MathTrunc(p.py)), gridSize - 1)
    IN  [left |-> left, right |-> left + 1,
         bottom |-> bottom, top |-> bottom + 1]

\* GetVelocityXAtWorldPos and GetVelocityYAtWorldPos (lines 172-208) read
\* the array handed to them in the same way.
GetVelocityAtWorldPos(worldPos, cs, arr) ==
    LET p == WorldToGrid(worldPos, cs)
        i == WorldIndices(worldPos, cs)
        xFrac == Rem1(p.px - i.left * Scale)
        yFrac == Rem1(p.py - i.bottom * Scale)
        valueTop == lerp(arr[i.top][i.left], arr[i.top][i.right], xFrac)
        valueBottom ==
            lerp(arr[i.bottom][i.left], arr[i.bottom][i.right], xFrac)
    IN  lerp(valueBottom, valueTop, yFrac)

GetVelocityXAtWorldPos(worldPos, cs, h) == GetVelocityAtWorldPos(worldPos, cs, h)
GetVelocityYAtWorldPos(worldPos, cs, v) == GetVelocityAtWorldPos(worldPos, cs, v)

\* The position a sample at pos is traced back to (lines 434-438, 450-454).
Backtrack(pos, h, v) ==
    LET velX == GetVelocityXAtLocalPos(pos, h)
        velY == GetVelocityYAtLocalPos(pos, v)
    IN  <<pos[1] - Mul(DELTA_TIME, velX), pos[2] - Mul(DELTA_TIME, velY)>>

\* The new vertical value sampled from the horizontal field.
AdvectVerticalOtherField(vTemp, h, v) ==
    Assigned(vTemp, Lines, Cols,
             Always(Lines, Cols),
             [row \in Lines |-> [col \in Cols |->
                 LET pos == <<col * Scale + Half, row * Scale>>
                 IN  GetVelocityXAtLocalPos(Backtrack(pos, h, v), h)]])

\* The first two loop nests of AdvectVelocities (lines 430-460):
\* verticalArrowsTemp and horizontalArrowsTemp after them.  Every entry is
\* assigned once and reads only the live arrays, which these loops do not
\* assign.
AdvectVerticalTemp(vTemp, h, v) ==
    Assigned(vTemp, Lines, Cols,
             Always(Lines, Cols),
             [row \in Lines |-> [col \in Cols |->
                 LET pos == <<col * Scale + Half, row * Scale>>
                 IN  GetVelocityYAtLocalPos(Backtrack(pos, h, v), v)]])

\* The horizontal samples taken as if they sat at the cell centres.
AdvectHorizontalAtCellCentres(hTemp, h, v) ==
    Assigned(hTemp, Rows, Lines,
             Always(Rows, Lines),
             [row \in Rows |-> [col \in Lines |->
                 LET pos == <<col * Scale + Half, row * Scale + Half>>
                 IN  GetVelocityXAtLocalPos(Backtrack(pos, h, v), h)]])

AdvectHorizontalTemp(hTemp, h, v) ==
    Assigned(hTemp, Rows, Lines,
             Always(Rows, Lines),
             [row \in Rows |-> [col \in Lines |->
                 LET pos == <<col * Scale, row * Scale + Half>>
                 IN  GetVelocityXAtLocalPos(Backtrack(pos, h, v), h)]])

\* The last two loop nests (lines 462-472): the live array after the copy.
CopyVertical(v, vTemp) ==
    Assigned(v, Lines, Cols,
             Always(Lines, Cols),
             [row \in Lines |-> [col \in Cols |-> vTemp[row][col]]])

CopyHorizontal(h, hTemp) ==
    Assigned(h, Rows, Lines,
             Always(Rows, Lines),
             [row \in Rows |-> [col \in Lines |-> hTemp[row][col]]])

\* ------------------------------------------------------------ User actions
\* The array part of ResetPressure (lines 610-621).
ResetCells(cv) ==
    Assigned(cv, 0 .. (gridSize - 1), 0 .. (gridSize - 1),
             Always(0 .. (gridSize - 1), 0 .. (gridSize - 1)),
             [row \in 0 .. (gridSize - 1) |-> [col \in 0 .. (gridSize - 1) |-> 0]])

\* The second loop nest runs i over 0..gridSize and j over 0..gridSize-1
\* and assigns verticalArrows[i][j] when i < gridSize + 1 and
\* horizontalArrows[i][j] when i < gridSize and j <= gridSize.
ResetVertical(v) ==
    Assigned(v, 0 .. gridSize, 0 .. (gridSize - 1),
             [i \in 0 .. gridSize |-> [j \in 0 .. (gridSize - 1) |->
                 i < gridSize + 1]],
             [i \in 0 .. gridSize |-> [j \in 0 .. (gridSize - 1) |-> 0]])

\* j runs up to gridSize + 1, so that a column past the end is assigned.
ResetHorizontalPastEnd(h) ==
    Assigned(h, 0 .. gridSize, 0 .. (gridSize + 1),
             [i \in 0 .. gridSize |-> [j \in 0 .. (gridSize + 1) |->
                 i < gridSize /\ j <= gridSize + 1]],
             [i \in 0 .. gridSize |-> [j \in 0 .. (gridSize + 1) |-> 0]])

ResetHorizontal(h) ==
    Assigned(h, 0 .. gridSize, 0 .. (gridSize - 1),
             [i \in 0 .. gridSize |-> [j \in 0 .. (gridSize - 1) |->
                 i < gridSize /\ j <= gridSize]],
             [i \in 0 .. gridSize |-> [j \in 0 .. (gridSize - 1) |-> 0]])

\* The line part of ResetPressure (lines 633-653): the callback on one line
\* of face f.
ResetArrow(fc, f, kind) ==
    LET e == Face(f)
        x1 == e.x1
        y1 == e.y1
        own == [fc EXCEPT ![kind] = [x2 |-> x1, y2 |-> y1]]
    IN  IF NextIsLine(kind)
        THEN IF e.type = "vertical"
             THEN [own EXCEPT !.hit = [x2 |-> x1, y2 |-> y1 + 15 * Scale]]
             ELSE [own EXCEPT !.hit = [x2 |-> x1 + 15 * Scale, y2 |-> y1]]
        ELSE own

\* The forEach: per face, the callback on the visible line, then the one
\* on the hit area.
ResetArrows(svg) ==
    [f \in Faces |-> ResetArrow(ResetArrow(svg[f], f, Kinds[1]), f, Kinds[2])]

\* Math.random() at the k-th call of one RandomiseVelocities, one of
\* MaxSeed streams of values 0 <= r < 1.
MathRandom(seed, k) ==
    (37 * seed * k * k + 911 * seed * k + 613 * seed * seed + 7 * k) % Scale

\* The forEach callback of RandomiseVelocities (lines 658-701) on one line
\* of face f, the k-th line visited.  st = [fc, value]: the face's lines and
\* the face's entry of verticalArrows or horizontalArrows.
RandomiseArrow(st, seed, f, kind, k) ==
    LET e == Face(f)
        maxLength == cellSize
        magnitude == Mul(MathRandom(seed, k) - Half, 800)
    IN  IF e.type = "vertical"
        THEN LET newY == e.y1 + Mul(magnitude, maxLength)
             IN  [fc |-> SetLineAndSibling(st.fc, kind, e.x1, newY),
                  value |-> magnitude]
        ELSE LET newX == e.x1 + Mul(magnitude, maxLength)
             IN  [fc |-> SetLineAndSibling(st.fc, kind, newX, e.y1),
                  value |-> magnitude]

\* The forEach on face f: the callback on the visible line (the 2f-th line
\* visited), then the one on the hit area (the next).
RandomiseFace(fc, value, seed, f) ==
    RandomiseArrow(RandomiseArrow([fc |-> fc, value |-> value],
                                  seed, f, Kinds[1], 2 * f),
                   seed, f, Kinds[2], 2 * f + 1)

\* The face whose entry is verticalArrows[lineIdx][col], and the one whose
\* entry is horizontalArrows[row][lineIdx].
VerticalFace(lineIdx, col) == lineIdx * gridSize + col
HorizontalFace(row, lineIdx) == NumVertical + row * (gridSize + 1) + lineIdx

\* The boundary faces passed over: only the interior faces get a magnitude.
RandomiseArrowsSparingWalls(svg, h, v, seed) ==
    LET done == [f \in Faces |->
                    LET e == Face(f)
                        old == IF e.type = "vertical"
                               THEN v[e.lineIdx][e.col]
                               ELSE h[e.row][e.lineIdx]
                    IN  IF e.lineIdx = 0 \/ e.lineIdx = gridSize
                        THEN [fc |-> svg[f], value |-> old]
                        ELSE RandomiseFace(svg[f], old, seed, f)]
    IN  [svg |-> [f \in Faces |-> done[f].fc],
         v |-> [lineIdx \in Lines |-> [col \in Cols |->
                   done[VerticalFace(lineIdx, col)].value]],
         h |-> [row \in Rows |-> [lineIdx \in Lines |->
                   done[HorizontalFace(row, lineIdx)].value]]]

\* RandomiseVelocities after its call of ResetPressure: [svg, h, v].
RandomiseArrows(svg, h, v, seed) ==
    LET done == [f \in Faces |->
                    LET e == Face(f)
                        old == IF e.type = "vertical"
                               THEN v[e.lineIdx][e.col]
                               ELSE h[e.row][e.lineIdx]
                    IN  RandomiseFace(svg[f], old, seed, f)]
        after ==
            [svg |-> [f \in Faces |-> done[f].fc],
             v |-> Assigned(v, Lines, Cols,
                            Always(Lines, Cols),
                            [lineIdx \in Lines |-> [col \in Cols |->
                                done[VerticalFace(lineIdx, col)].value]]),
             h |-> Assigned(h, Rows, Lines,
                            Always(Rows, Lines),
                            [row \in Rows |-> [lineIdx \in Lines |->
                                done[HorizontalFace(row, lineIdx)].value]])]
    IN  IF Evaluated(done) THEN after ELSE after

\* ------------------------------------------------------------------- state
VARIABLES
    cellValues,            \* pressure, N x N
    horizontalArrows,      \* x-velocity on vertical faces, N x (N+1)
    verticalArrows,        \* y-velocity on horizontal faces, (N+1) x N
    horizontalArrowsTemp,  \* advection buffers
    verticalArrowsTemp,
    svg,                   \* x2, y2 of the two lines of every face
    last,                  \* the operation that ran last
    arg,                   \* its (row, col), for CalculatePressure
    calls,                 \* the CalculatePressure calls it made, in order
    pre,                   \* the three arrays as they were when it began
    preTemp,               \* the advection buffers as they were when it began
    ret,                   \* what the last sampler call returned
    phase,                 \* position in the tick loop
    ticks,                 \* ticks started
    tick0,                 \* the three arrays as they were at tick start
    steps                  \* operations applied (SpecOps, SpecCell)

vars == <<cellValues, horizontalArrows, verticalArrows, horizontalArrowsTemp,
          verticalArrowsTemp, svg, last, arg, calls, pre, preTemp, ret,
          phase, ticks, tick0, steps>>

arrays == [cv |-> cellValues, h |-> horizontalArrows, v |-> verticalArrows]
buffers == [h |-> horizontalArrowsTemp, v |-> verticalArrowsTemp]

\* ------------------------------------------------------------------ inputs
\* All arrays zero-filled (widget initialisation).
ZeroArrays == [cv |-> ZeroCells, h |-> ZeroHorizontal, v |-> ZeroVertical]

\* An all-zero grid with one interior horizontal face set to a.
OneFace(row, col, a) ==
    [cv |-> ZeroCells,
     h |-> [ZeroHorizontal EXCEPT ![row][col] = a],
     v |-> ZeroVertical]

\* Arbitrary contents: every entry of every array non-trivial.
PatValue(s, i) ==
    ((41 * s * i * i + 907 * s * i + 617 * s * s + 11 * i) % 801) - 400

Pattern(s) ==
    [cv |-> [row \in Rows |-> [col \in Cols |->
                10 * PatValue(s, row * gridSize + col)]],
     h |-> [row \in Rows |-> [col \in Lines |->
                PatValue(s, 100 + row * (gridSize + 1) + col)]],
     v |-> [row \in Lines |-> [col \in Cols |->
                PatValue(s, 200 + row * gridSize + col)]]]

\* Uniform fields: every entry of horizontalArrows a, of verticalArrows b.
Uniform(a, b) ==
    [cv |-> ZeroCells,
     h |-> [row \in Rows |-> [col \in Lines |-> a]],
     v |-> [row \in Lines |-> [col \in Cols |-> b]]]

\* Closed walls and a fast interior: the boundary faces zero, every other
\* face 400 times its Pattern value (up to 160 cells per unit of time, two
\* and a half cells per step).
Walled(s) ==
    [cv |-> Pattern(s).cv,
     h |-> [row \in Rows |-> [col \in Lines |->
                IF col = 0 \/ col = gridSize THEN 0
                ELSE 400 * Pattern(s).h[row][col]]],
     v |-> [row \in Lines |-> [col \in Cols |->
                IF row = 0 \/ row = gridSize THEN 0
                ELSE 400 * Pattern(s).v[row][col]]]]

Seeds == 1 .. MaxSeed
FaceValues == {250, 1000}
\* From slow to more than a cell per step (dt * 62.5 = 1).
UniformValues == {-100000, 0, 700, 62500}

OneFaceInputs ==
    {OneFace(row, col, a) : row \in Rows, col \in 1 .. (gridSize - 1),
                            a \in FaceValues}
PatternInputs == {Pattern(s) : s \in Seeds}
UniformInputs == {Uniform(a, b) : a \in UniformValues, b \in UniformValues}
WalledInputs == {Walled(s) : s \in Seeds}
Inputs ==
    {ZeroArrays} \cup OneFaceInputs \cup PatternInputs \cup UniformInputs
        \cup WalledInputs

InitFrom(in) ==
    /\ cellValues = in.cv
    /\ horizontalArrows = in.h
    /\ verticalArrows = in.v
    /\ horizontalArrowsTemp = ZeroHorizontal
    /\ verticalArrowsTemp = ZeroVertical
    /\ svg = ConfigureSVG
    /\ last = "init"
    /\ arg = <<>>
    /\ calls = <<>>
    /\ pre = in
    /\ preTemp = [h |-> ZeroHorizontal, v |-> ZeroVertical]
    /\ ret = [defined |-> TRUE, value |-> 0]
    /\ phase = "idle"
    /\ ticks = 0
    /\ tick0 = in
    /\ steps = 0

\* The widget after construction: arrays zero-filled, arrows configured.
Init == InitFrom(ZeroArrays)
\* An operation applied to arbitrary array contents.
InitOps == \E in \in Inputs : InitFrom(in)
InitCell == \E in \in PatternInputs \cup {ZeroArrays} : InitFrom(in)

\* -------------------------------------------------------------- operations
Ran(name) ==
    /\ last' = name
    /\ pre' = arrays
    /\ preTemp' = buffers
    /\ ret' = ret

CalculatePressureOp(row, col) ==
    /\ cellValues' = CalculatePressure(cellValues, horizontalArrows,
                                       verticalArrows, row, col)
    /\ Ran("CalculatePressure")
    /\ arg' = <<row, col>>
    /\ calls' = << <<row, col>> >>
    /\ UNCHANGED <<horizontalArrows, verticalArrows, horizontalArrowsTemp,
                   verticalArrowsTemp, svg>>

\* A sweep that also stores each row's first pressure in the face left of it.
SolvePressureWritingVelocityOp ==
    LET st == SolvePressureRedBlack(cellValues, horizontalArrows,
                                    verticalArrows)
    IN  /\ cellValues' = st.cv
        /\ calls' = st.calls
        /\ horizontalArrows' = [row \in Rows |->
               [horizontalArrows[row] EXCEPT ![0] = st.cv[row][0]]]
        /\ Ran("SolvePressureRedBlack")
        /\ arg' = <<>>
        /\ UNCHANGED <<verticalArrows, horizontalArrowsTemp,
                       verticalArrowsTemp, svg>>

SolvePressureRedBlackOp ==
    LET st == SolvePressureRedBlack(cellValues, horizontalArrows,
                                    verticalArrows)
    IN  /\ cellValues' = st.cv
        /\ calls' = st.calls
        /\ Ran("SolvePressureRedBlack")
        /\ arg' = <<>>
        /\ UNCHANGED <<horizontalArrows, verticalArrows,
                       horizontalArrowsTemp, verticalArrowsTemp, svg>>

\* The projection consuming the pressure: cellValues zero-filled once the
\* velocities are corrected.
CalculateVelocitiesClearingPressureOp ==
    LET v2 == ProjectVertical(cellValues, verticalArrows)
        h2 == ProjectHorizontal(cellValues, horizontalArrows)
    IN  /\ verticalArrows' = v2
        /\ horizontalArrows' = h2
        /\ cellValues' = ResetCells(cellValues)
        /\ svg' = UpdateArrows(svg, h2, v2)
        /\ Ran("CalculateVelocities")
        /\ arg' = <<>>
        /\ calls' = <<>>
        /\ UNCHANGED <<horizontalArrowsTemp, verticalArrowsTemp>>

CalculateVelocitiesOp ==
    LET v2 == ProjectVertical(cellValues, verticalArrows)
        h2 == ProjectHorizontal(cellValues, horizontalArrows)
    IN  /\ verticalArrows' = v2
        /\ horizontalArrows' = h2
        /\ svg' = UpdateArrows(svg, h2, v2)
        /\ Ran("CalculateVelocities")
        /\ arg' = <<>>
        /\ calls' = <<>>
        /\ UNCHANGED <<cellValues, horizontalArrowsTemp, verticalArrowsTemp>>

\* The copy-back before the loop nests: the live arrays receive what the
\* temporaries held before the call, and the samples are taken afterwards.
AdvectVelocitiesCopyFirstOp ==
    /\ verticalArrows' = CopyVertical(verticalArrows, verticalArrowsTemp)
    /\ horizontalArrows' = CopyHorizontal(horizontalArrows, horizontalArrowsTemp)
    /\ verticalArrowsTemp' =
           AdvectVerticalTemp(verticalArrowsTemp, horizontalArrows', verticalArrows')
    /\ horizontalArrowsTemp' =
           AdvectHorizontalTemp(horizontalArrowsTemp, horizontalArrows', verticalArrows')
    /\ Ran("AdvectVelocities") /\ arg' = <<>> /\ calls' = <<>>
    /\ UNCHANGED <<cellValues, svg>>

\* AdvectVelocities: the temporaries are filled from the live arrays
\* (lines 430-460), then copied back entry by entry (lines 462-472).
AdvectVelocitiesOp ==
    /\ verticalArrowsTemp' =
           AdvectVerticalTemp(verticalArrowsTemp, horizontalArrows,
                              verticalArrows)
    /\ horizontalArrowsTemp' =
           AdvectHorizontalTemp(horizontalArrowsTemp, horizontalArrows,
                                verticalArrows)
    /\ verticalArrows' = CopyVertical(verticalArrows, verticalArrowsTemp')
    /\ horizontalArrows' =
           CopyHorizontal(horizontalArrows, horizontalArrowsTemp')
    /\ Ran("AdvectVelocities")
    /\ arg' = <<>>
    /\ calls' = <<>>
    /\ UNCHANGED <<cellValues, svg>>

\* ResetPressure.  Its forEach over the ".cell" elements (lines 623-631)
\* restyles the pressure read-out, which no operation here reads back.
ResetPressureOp ==
    /\ cellValues' = ResetCells(cellValues)
    /\ verticalArrows' = ResetVertical(verticalArrows)
    /\ horizontalArrows' = ResetHorizontal(horizontalArrows)
    /\ svg' = ResetArrows(svg)
    /\ Ran("ResetPressure")
    /\ arg' = <<>>
    /\ calls' = <<>>
    /\ UNCHANGED <<horizontalArrowsTemp, verticalArrowsTemp>>

\* RandomiseVelocities: ResetPressure, then the forEach over the lines.
RandomiseVelocitiesOp(seed) ==
    LET st == RandomiseArrows(ResetArrows(svg),
                              ResetHorizontal(horizontalArrows),
                              ResetVertical(verticalArrows), seed)
    IN  /\ cellValues' = ResetCells(cellValues)
        /\ verticalArrows' = st.v
        /\ horizontalArrows' = st.h
        /\ svg' = st.svg
        /\ Ran("RandomiseVelocities")
        /\ arg' = <<>>
        /\ calls' = <<>>
        /\ UNCHANGED <<horizontalArrowsTemp, verticalArrowsTemp>>

\* ------------------------------------------------- the widget's tick loop
\* Advect, then Relax once, then Project; user actions between ticks.
TickAdvect ==
    /\ phase = "idle"
    /\ ticks < MaxTicks
    /\ AdvectVelocitiesOp
    /\ phase' = "advected"
    /\ ticks' = ticks + 1
    /\ tick0' = arrays
    /\ UNCHANGED steps

TickRelax ==
    /\ phase = "advected"
    /\ SolvePressureRedBlackOp
    /\ phase' = "relaxed"
    /\ UNCHANGED <<ticks, tick0, steps>>

TickProject ==
    /\ phase = "relaxed"
    /\ CalculateVelocitiesOp
    /\ phase' = "idle"
    /\ UNCHANGED <<ticks, tick0, steps>>

UserReset ==
    /\ phase = "idle"
    /\ ResetPressureOp
    /\ UNCHANGED <<phase, ticks, tick0, steps>>

UserRandomise ==
    /\ phase = "idle"
    /\ \E seed \in Seeds : RandomiseVelocitiesOp(seed)
    /\ UNCHANGED <<phase, ticks, tick0, steps>>

Next == TickAdvect \/ TickRelax \/ TickProject \/ UserReset \/ UserRandomise

Spec == Init /\ [][Next]_vars

\* ------------------------------------------------- the end-to-end scenario
\* All arrays zero, then horizontalArrows[4][4] = 1.0, then RunTicks ticks
\* with no user action.
InitRun == InitFrom(OneFace(4, 4, Scale))

RunAdvect ==
    /\ phase = "idle"
    /\ ticks < RunTicks
    /\ AdvectVelocitiesOp
    /\ phase' = "advected"
    /\ ticks' = ticks + 1
    /\ tick0' = arrays
    /\ UNCHANGED steps

NextRun == RunAdvect \/ TickRelax \/ TickProject

SpecRun == InitRun /\ [][NextRun]_vars

\* ------------------------------------ operations on arbitrary array contents
Step == steps < MaxSteps /\ steps' = steps + 1 /\ UNCHANGED <<phase, ticks, tick0>>

OpsAdvect == Step /\ AdvectVelocitiesOp
OpsRelax == Step /\ SolvePressureRedBlackOp
OpsProject == Step /\ CalculateVelocitiesOp
OpsReset == Step /\ ResetPressureOp
OpsRandomise == Step /\ \E seed \in Seeds : RandomiseVelocitiesOp(seed)

NextOps == OpsAdvect \/ OpsRelax \/ OpsProject \/ OpsReset \/ OpsRandomise

SpecOps == InitOps /\ [][NextOps]_vars

\* ------------------------------------------ single calls of CalculatePressure
CellCall ==
    /\ steps < MaxCalls
    /\ steps' = steps + 1
    /\ \E row \in Rows, col \in Cols : CalculatePressureOp(row, col)
    /\ UNCHANGED <<phase, ticks, tick0>>

NextCell == CellCall

SpecCell == InitCell /\ [][NextCell]_vars

\* ------------------------------------------- single calls of the samplers
\* Sample positions: inside the grid, on its edges, outside it on either
\* side, near and far.
SampleCoords ==
    {-1000500, -1000, -1, 0, 499, 4250, 7999, 8000, 8500, 1000000}

SampleX ==
    \E x \in SampleCoords, y \in SampleCoords :
        /\ last' = "GetVelocityXAtLocalPos"
        /\ arg' = <<x, y>>
        /\ calls' = Reads(XIndices(<<x, y>>))
        /\ ret' = Returned(horizontalArrows, calls',
                           GetVelocityXAtLocalPos(<<x, y>>, horizontalArrows))
        /\ pre' = arrays
        /\ preTemp' = buffers
        /\ UNCHANGED <<cellValues, horizontalArrows, verticalArrows,
                       horizontalArrowsTemp, verticalArrowsTemp, svg,
                       phase, ticks, tick0, steps>>

SampleY ==
    \E x \in SampleCoords, y \in SampleCoords :
        /\ last' = "GetVelocityYAtLocalPos"
        /\ arg' = <<x, y>>
        /\ calls' = Reads(YIndices(<<x, y>>))
        /\ ret' = Returned(verticalArrows, calls',
                           GetVelocityYAtLocalPos(<<x, y>>, verticalArrows))
        /\ pre' = arrays
        /\ preTemp' = buffers
        /\ UNCHANGED <<cellValues, horizontalArrows, verticalArrows,
                       horizontalArrowsTemp, verticalArrowsTemp, svg,
                       phase, ticks, tick0, steps>>

InitSample == \E in \in PatternInputs : InitFrom(in)

NextSample == SampleX \/ SampleY

SpecSample == InitSample /\ [][NextSample]_vars

\* --------------------------- single calls of the world-position samplers
\* World coordinates: positions AdvectVelocities of lines 210-248 samples
\* at (0, 4, 8), and positions on and past the sides of the grid drawn with
\* cellSize 40 (-200, 120, 1000).
WorldCoords == {-200000, 0, 4000, 8000, 120000, 1000000}
\* Positive cell sizes: 0.5, 1 and the widget's 40.
CellSizes == {500, 1000, cellSize}

WorldSampleX ==
    \E x \in WorldCoords, y \in WorldCoords, cs \in CellSizes :
        /\ last' = "GetVelocityXAtWorldPos"
        /\ arg' = <<x, y, cs>>
        /\ calls' = Reads(WorldIndices(<<x, y>>, cs))
        /\ ret' = Returned(horizontalArrows, calls',
                           GetVelocityXAtWorldPos(<<x, y>>, cs,
                                                  horizontalArrows))
        /\ pre' = arrays
        /\ preTemp' = buffers
        /\ UNCHANGED <<cellValues, horizontalArrows, verticalArrows,
                       horizontalArrowsTemp, verticalArrowsTemp, svg,
                       phase, ticks, tick0, steps>>

WorldSampleY ==
    \E x \in WorldCoords, y \in WorldCoords, cs \in CellSizes :
        /\ last' = "GetVelocityYAtWorldPos"
        /\ arg' = <<x, y, cs>>
        /\ calls' = Reads(WorldIndices(<<x, y>>, cs))
        /\ ret' = Returned(verticalArrows, calls',
                           GetVelocityYAtWorldPos(<<x, y>>, cs,
                                                  verticalArrows))
        /\ pre' = arrays
        /\ preTemp' = buffers
        /\ UNCHANGED <<cellValues, horizontalArrows, verticalArrows,
                       horizontalArrowsTemp, verticalArrowsTemp, svg,
                       phase, ticks, tick0, steps>>

NextWorld == WorldSampleX \/ WorldSampleY

SpecWorld == InitSample /\ [][NextWorld]_vars

\* ------------------------- the samplers at the positions of their samples
\* The position AdvectVelocities gives the sample verticalArrows[row][col]
\* (line 432) and horizontalArrows[row][col] (line 448).
VerticalPos(row, col) == <<col * Scale + Half, row * Scale>>
HorizontalPos(row, col) == <<col * Scale, row * Scale + Half>>

FaceSampleX ==
    Step /\ \E row \in Rows, col \in Lines :
        /\ last' = "GetVelocityXAtLocalPos"
        /\ arg' = HorizontalPos(row, col)
        /\ calls' = Reads(XIndices(arg'))
        /\ ret' = Returned(horizontalArrows, calls',
                           GetVelocityXAtLocalPos(arg', horizontalArrows))
        /\ pre' = arrays
        /\ preTemp' = buffers
        /\ UNCHANGED <<cellValues, horizontalArrows, verticalArrows,
                       horizontalArrowsTemp, verticalArrowsTemp, svg>>

FaceSampleY ==
    Step /\ \E row \in Lines, col \in Cols :
        /\ last' = "GetVelocityYAtLocalPos"
        /\ arg' = VerticalPos(row, col)
        /\ calls' = Reads(YIndices(arg'))
        /\ ret' = Returned(verticalArrows, calls',
                           GetVelocityYAtLocalPos(arg', verticalArrows))
        /\ pre' = arrays
        /\ preTemp' = buffers
        /\ UNCHANGED <<cellValues, horizontalArrows, verticalArrows,
                       horizontalArrowsTemp, verticalArrowsTemp, svg>>

InitFace == \E in \in PatternInputs \cup {OneFace(4, 4, Scale)} : InitFrom(in)

NextFace == FaceSampleX \/ FaceSampleY \/ OpsAdvect

SpecFace == InitFace /\ [][NextFace]_vars

\* ================================================================== claims
BoundaryZero(h, v) ==
    /\ \A row \in Rows : h[row][0] = 0 /\ h[row][gridSize] = 0
    /\ \A col \in Cols : v[0][col] = 0 /\ v[gridSize][col] = 0

BoundaryAllNonZero(h, v) ==
    /\ \A row \in Rows : h[row][0] # 0 /\ h[row][gridSize] # 0
    /\ \A col \in Cols : v[0][col] # 0 /\ v[gridSize][col] # 0

TickOps == {"AdvectVelocities", "SolvePressureRedBlack", "CalculateVelocities"}

\* C1: after CalculateVelocities, whatever the arrays held before, columns
\* 0 and N of horizontalArrows and rows 0 and N of verticalArrows are zero.
C1_ProjectZeroesBoundary ==
    last = "CalculateVelocities"
        => BoundaryZero(horizontalArrows, verticalArrows)

\* CalculateVelocities has run on arrays whose boundary faces were all
\* non-zero and whose pressure was non-zero.
C1_Witness ==
    /\ last = "CalculateVelocities"
    /\ BoundaryAllNonZero(pre.h, pre.v)
    /\ pre.cv # ZeroCells

\* C2: in every run from zero-filled arrays made of ticks and, between
\* ticks, ResetPressure and RandomiseVelocities, the boundary faces are
\* zero right after every AdvectVelocities and every CalculateVelocities.
C2_BoundaryZeroAfterAdvectAndProject ==
    last \in {"AdvectVelocities", "CalculateVelocities"}
        => BoundaryZero(horizontalArrows, verticalArrows)

\* C3: the boundary faces are zero in every state between operations: no
\* user action leaves one non-zero.
C3_BoundaryZeroBetweenOperations ==
    BoundaryZero(horizontalArrows, verticalArrows)

\* C4: after ResetPressure every entry of cellValues, of horizontalArrows
\* (column N included) and of verticalArrows is zero.
C4_ResetZeroesEverything ==
    last = "ResetPressure" => arrays = ZeroArrays

\* C5: a tick that starts from all-zero arrays leaves them all zero, after
\* each of its three steps; so any number of ticks from zero ends in zero.
C5_ZeroIsFixedPoint ==
    (last \in TickOps /\ tick0 = ZeroArrays) => arrays = ZeroArrays

\* Two full ticks have run from the zero-filled widget.
C5_Witness ==
    /\ ticks >= 2
    /\ phase = "idle"
    /\ last = "CalculateVelocities"
    /\ tick0 = ZeroArrays

\* The neighbour pressures as C6 states them: the neighbour's value when
\* the neighbour is a cell of the grid, zero when it is not.
InGridPressure(cv, row, col) ==
    IF row \in Rows /\ col \in Cols THEN cv[row][col] ELSE 0

InGridPressureTerm(cv, row, col) ==
    InGridPressure(cv, row, col - 1) + InGridPressure(cv, row, col + 1)
        + InGridPressure(cv, row - 1, col) + InGridPressure(cv, row + 1, col)

\* (pressure - DENSITY * DELTA_X * velocity / DELTA_TIME) / 4.0
PressureFormula(pressure, velocity) ==
    Div(pressure - Div(Mul(Mul(DENSITY, DELTA_X), velocity), DELTA_TIME),
        4 * Scale)

\* C6: CalculatePressure(row, col) stores (pLeft + pRight + pUp + pDown -
\* density*dx*divergence/dt) / 4, each neighbour pressure being the
\* neighbour's value when it lies in the grid and zero only when it does
\* not; on edge cells too.
C6_PressureReadsEveryInGridNeighbour ==
    last = "CalculatePressure" =>
        cellValues[arg[1]][arg[2]] =
            PressureFormula(InGridPressureTerm(pre.cv, arg[1], arg[2]),
                            VelocityTerm(pre.h, pre.v, arg[1], arg[2]))

\* The divergence as C7 states it.
StatedDivergence(h, v, row, col) ==
    LET vLeft == h[row][col]
        vRight == IF col = gridSize - 1 THEN 0 ELSE h[row][col + 1]
        vUp == v[row][col]
        vDown == IF row = gridSize - 1 THEN 0 ELSE v[row + 1][col]
    IN  vRight - vLeft + vDown - vUp

\* C7: the divergence CalculatePressure(row, col) uses is vRight - vLeft +
\* vDown - vUp with vLeft = h[row][col], vRight = h[row][col+1] or 0 when
\* col = N-1, vUp = v[row][col], vDown = v[row+1][col] or 0 when row = N-1:
\* the value stored is the formula's value at that divergence.
C7_DivergenceOfTheFourFaces ==
    last = "CalculatePressure" =>
        cellValues[arg[1]][arg[2]] =
            PressureFormula(PressureTerm(pre.cv, arg[1], arg[2]),
                            StatedDivergence(pre.h, pre.v, arg[1], arg[2]))

\* CalculatePressure has run on the corner cell (N-1, N-1) with non-zero
\* velocities on the wall faces right of it and below it.
C7_Witness ==
    /\ last = "CalculatePressure"
    /\ arg = <<gridSize - 1, gridSize - 1>>
    /\ pre.h[gridSize - 1][gridSize] # 0
    /\ pre.v[gridSize][gridSize - 1] # 0
    /\ cellValues # pre.cv

Colour(cell) == (cell[1] + cell[2]) % 2

\* C8: one SolvePressureRedBlack calls CalculatePressure on every cell
\* exactly once, all cells of colour 0 before any cell of colour 1; a cell
\* of colour 0 gets the value computed from the pressures the sweep began
\* with, a cell of colour 1 the value computed from the colour-0 values
\* written in this sweep.
C8_RedThenBlack ==
    last = "SolvePressureRedBlack" =>
        /\ Len(calls) = NumCells
        /\ \A row \in Rows, col \in Cols :
              Cardinality({i \in 1 .. Len(calls) : calls[i] = <<row, col>>}) = 1
        /\ \A i, j \in 1 .. Len(calls) :
              i < j => Colour(calls[i]) <= Colour(calls[j])
        /\ \A row \in Rows, col \in Cols :
              cellValues[row][col] =
                  IF Colour(<<row, col>>) = 0
                  THEN NewPressure(pre.cv, pre.h, pre.v, row, col)
                  ELSE NewPressure(cellValues, pre.h, pre.v, row, col)

\* A sweep has run in which some colour-1 cell got a value other than the
\* one the pressures before the sweep would have given it.
C8_Witness ==
    /\ last = "SolvePressureRedBlack"
    /\ pre.cv # ZeroCells
    /\ \E row \in Rows, col \in Cols :
          /\ Colour(<<row, col>>) = 1
          /\ cellValues[row][col] # NewPressure(pre.cv, pre.h, pre.v, row, col)

\* The naive update: every cell by the same formula from the pressures
\* before the sweep.
NaiveSimultaneousUpdate(in) ==
    [row \in Rows |-> [col \in Cols |->
        NewPressure(in.cv, in.h, in.v, row, col)]]

\* The inputs asymmetric in the sense of C9 and C10: all zero but one
\* interior horizontal face, which is positive.
OneInteriorFacePositive(in, row, col) ==
    /\ col \in 1 .. (gridSize - 1)
    /\ in.h[row][col] > 0
    /\ in = OneFace(row, col, in.h[row][col])

\* C9: there are asymmetric inputs on which one SolvePressureRedBlack
\* sweep and the naive simultaneous update give different pressures: every
\* all-zero grid with one positive interior horizontal face is one.
C9_DiffersFromSimultaneousUpdate ==
    (/\ last = "SolvePressureRedBlack"
     /\ \E row \in Rows, col \in Lines : OneInteriorFacePositive(pre, row, col))
        => cellValues # NaiveSimultaneousUpdate(pre)

\* A sweep has run on an all-zero grid with one positive interior face.
C9_Witness ==
    /\ last = "SolvePressureRedBlack"
    /\ OneInteriorFacePositive(pre, 4, 4)
    /\ cellValues # NaiveSimultaneousUpdate(pre)

\* C10: after one sweep on an all-zero grid with one positive interior
\* horizontal face h[r][c], the cells (r, c-1) and (r, c) next to the face
\* hold pressures of opposite sign, for every such face.
C10_OppositeSignsAcrossTheFace ==
    \A row \in Rows, col \in Lines :
        (last = "SolvePressureRedBlack" /\ OneInteriorFacePositive(pre, row, col))
            => \/ cellValues[row][col - 1] < 0 /\ cellValues[row][col] > 0
               \/ cellValues[row][col - 1] > 0 /\ cellValues[row][col] < 0

\* Sweeps have run on a face next to the left grid edge and on one next to
\* the right grid edge (cells of either colour on either side).
C10_Witness ==
    /\ last = "SolvePressureRedBlack"
    /\ \/ OneInteriorFacePositive(pre, 0, 1)
       \/ OneInteriorFacePositive(pre, gridSize - 1, gridSize - 1)

\* C11: SolvePressureRedBlack leaves horizontalArrows and verticalArrows as
\* they were when it began (and the advection buffers too): it writes only
\* entries of cellValues.
C11_SweepWritesOnlyPressure ==
    last = "SolvePressureRedBlack" =>
        /\ horizontalArrows = pre.h
        /\ verticalArrows = pre.v

\* A sweep has run on arrays whose velocities were non-zero everywhere on
\* the boundary, and it changed the pressure.
C11_Witness ==
    /\ last = "SolvePressureRedBlack"
    /\ BoundaryAllNonZero(pre.h, pre.v)
    /\ cellValues # pre.cv
    /\ Len(calls) = NumCells

\* k = dt / density, as C12 states it.
StatedK == Div(DELTA_TIME, DENSITY)

\* C12: CalculateVelocities replaces every vertical face of rows 1..N-1 by
\* its old value minus k*(pressure[row][col] - pressure[row-1][col]) and
\* every horizontal face of columns 1..N-1 by its old value minus
\* k*(pressure[row][col] - pressure[row][col-1]), k = dt/density; the
\* difference is subtracted once.
C12_ProjectSubtractsPressureGradient ==
    last = "CalculateVelocities" =>
        /\ \A row \in 1 .. (gridSize - 1), col \in Cols :
              verticalArrows[row][col] =
                  pre.v[row][col]
                      - Mul(StatedK, pre.cv[row][col] - pre.cv[row - 1][col])
        /\ \A row \in Rows, col \in 1 .. (gridSize - 1) :
              horizontalArrows[row][col] =
                  pre.h[row][col]
                      - Mul(StatedK, pre.cv[row][col] - pre.cv[row][col - 1])

\* CalculateVelocities has run on non-zero pressures and velocities and
\* changed an interior face of either field.
C12_Witness ==
    /\ last = "CalculateVelocities"
    /\ pre.h[4][4] # 0 /\ pre.v[4][4] # 0
    /\ horizontalArrows[4][4] # pre.h[4][4]
    /\ verticalArrows[4][4] # pre.v[4][4]

\* The advection as C13 and C14 state it: the new value of a sample is the
\* sample of its own field at the sample's position moved back by dt times
\* the velocity (velX, velY) sampled there, all read from the fields h, v.
StatedBacktrack(pos, h, v) ==
    <<pos[1] - Mul(DELTA_TIME, GetVelocityXAtLocalPos(pos, h)),
      pos[2] - Mul(DELTA_TIME, GetVelocityYAtLocalPos(pos, v))>>

StatedAdvectVertical(h, v) ==
    [row \in Lines |-> [col \in Cols |->
        GetVelocityYAtLocalPos(
            StatedBacktrack(<<col * Scale + Half, row * Scale>>, h, v), v)]]

StatedAdvectHorizontal(h, v) ==
    [row \in Rows |-> [col \in Lines |->
        GetVelocityXAtLocalPos(
            StatedBacktrack(<<col * Scale, row * Scale + Half>>, h, v), h)]]

C14_SemiLagrangianSameField ==
    last = "AdvectVelocities" =>
        /\ verticalArrows = StatedAdvectVertical(pre.h, pre.v)
        /\ horizontalArrows = StatedAdvectHorizontal(pre.h, pre.v)

\* AdvectVelocities has run on fields non-zero on every boundary face and
\* changed samples of either field, a boundary sample among them.
C14_Witness ==
    /\ last = "AdvectVelocities"
    /\ BoundaryAllNonZero(pre.h, pre.v)
    /\ \E row \in Rows, col \in Lines : horizontalArrows[row][col] # pre.h[row][col]
    /\ \E col \in Cols : verticalArrows[0][col] # pre.v[0][col]

IsUniform(in) ==
    /\ \A row \in Rows, col \in Lines : in.h[row][col] = in.h[0][0]
    /\ \A row \in Lines, col \in Cols : in.v[row][col] = in.v[0][0]

\* C15: when every entry of horizontalArrows is one constant a and every
\* entry of verticalArrows one constant b, boundary entries included,
\* AdvectVelocities leaves both arrays as they were.
C15_UniformFieldUnchanged ==
    (last = "AdvectVelocities" /\ IsUniform(pre)) =>
        /\ horizontalArrows = pre.h
        /\ verticalArrows = pre.v

\* AdvectVelocities has run on a uniform field that moves a boundary
\* sample's position out of the grid by a cell or more.
C15_Witness ==
    /\ last = "AdvectVelocities"
    /\ IsUniform(pre)
    /\ pre.h[0][0] * DELTA_TIME >= Scale * Scale
    /\ pre.v[0][0] * DELTA_TIME <= -(Scale * Scale)

\* C16: the four reads of GetVelocityXAtLocalPos are at rows 0..N-1 and
\* columns 0..N of horizontalArrows, those of GetVelocityYAtLocalPos at
\* rows 0..N and columns 0..N-1 of verticalArrows, wherever the sample
\* position lies, and the call returns a number.
C16_SamplerReadsInBounds ==
    /\ last = "GetVelocityXAtLocalPos" =>
          /\ Len(calls) = 4
          /\ \A n \in 1 .. Len(calls) :
                calls[n][1] \in 0 .. (gridSize - 1) /\ calls[n][2] \in 0 .. gridSize
          /\ ret.defined
    /\ last = "GetVelocityYAtLocalPos" =>
          /\ Len(calls) = 4
          /\ \A n \in 1 .. Len(calls) :
                calls[n][1] \in 0 .. gridSize /\ calls[n][2] \in 0 .. (gridSize - 1)
          /\ ret.defined

\* A sampler has been called at a position outside the grid on both axes
\* (negative on one, beyond N on the other) and returned a non-zero value.
C16_Witness ==
    /\ last = "GetVelocityXAtLocalPos"
    /\ arg[1] < 0
    /\ arg[2] > (gridSize + 1) * Scale
    /\ ret.defined /\ ret.value # 0

HasShape(arr, rows, cols) ==
    /\ DOMAIN arr = rows
    /\ \A row \in rows : DOMAIN arr[row] = cols

\* C17: whatever operation has run, cellValues is N x N, horizontalArrows
\* N x (N+1) and verticalArrows (N+1) x N: no operation assigns an entry
\* outside these shapes.
C17_ArraysKeepTheirShapes ==
    /\ HasShape(cellValues, 0 .. (gridSize - 1), 0 .. (gridSize - 1))
    /\ HasShape(horizontalArrows, 0 .. (gridSize - 1), 0 .. gridSize)
    /\ HasShape(verticalArrows, 0 .. gridSize, 0 .. (gridSize - 1))

\* ResetPressure has run on arrays non-zero in their last entries and has
\* assigned the last row of verticalArrows and the last cell of cellValues.
C17_Witness ==
    /\ last = "ResetPressure"
    /\ pre.v[gridSize][gridSize - 1] # 0
    /\ verticalArrows[gridSize][gridSize - 1] = 0
    /\ pre.cv[gridSize - 1][gridSize - 1] # 0
    /\ cellValues[gridSize - 1][gridSize - 1] = 0

\* C18: started from all-zero arrays with horizontalArrows[4][4] = 1.0,
\* after every one of 50 consecutive ticks (Advect, Relax once, Project)
\* columns 0 and N of horizontalArrows and rows 0 and N of verticalArrows
\* are zero.
C18_BoundaryZeroAfterEveryTick ==
    (phase = "idle" /\ ticks >= 1) =>
        BoundaryZero(horizontalArrows, verticalArrows)

\* The fiftieth tick has completed, on a field that is still moving.
C18_Witness ==
    /\ ticks >= 50
    /\ phase = "idle"
    /\ last = "CalculateVelocities"
    /\ horizontalArrows # ZeroHorizontal
    /\ verticalArrows # ZeroVertical
    /\ cellValues # ZeroCells

\* x is a number no larger in magnitude than 1000: far inside the range of
\* the source's numbers, where arithmetic gives neither Infinity nor NaN.
IsFinite(x) == x \in Int /\ Abs(x) <= 1000 * Scale

\* C19: started from all-zero arrays with horizontalArrows[4][4] = 1.0,
\* after each of 50 consecutive ticks every entry of cellValues,
\* horizontalArrows and verticalArrows is a finite number.
C19_FiniteAfterEveryTick ==
    (phase = "idle" /\ ticks >= 1) =>
        /\ \A row \in Rows, col \in Cols : IsFinite(cellValues[row][col])
        /\ \A row \in Rows, col \in Lines : IsFinite(horizontalArrows[row][col])
        /\ \A row \in Lines, col \in Cols : IsFinite(verticalArrows[row][col])

\* The fiftieth tick has completed with non-zero pressures and velocities
\* both positive and negative.
C19_Witness ==
    /\ ticks >= 50
    /\ phase = "idle"
    /\ \E row \in Rows, col \in Cols : cellValues[row][col] > 0
    /\ \E row \in Rows, col \in Cols : cellValues[row][col] < 0
    /\ \E row \in Rows, col \in Lines : horizontalArrows[row][col] > 0
    /\ \E row \in Lines, col \in Cols : verticalArrows[row][col] < 0

\* The hit-area line of face f ends where the face's array entry puts it.
HitAreaDrawnFrom(h, v, f) ==
    LET e == Face(f)
    IN  IF e.type = "vertical"
        THEN svg[f].hit = [x2 |-> e.x1,
                           y2 |-> e.y1 + Mul(v[e.lineIdx][e.col], cellSize)]
        ELSE svg[f].hit = [x2 |-> e.x1 + Mul(h[e.row][e.lineIdx], cellSize),
                           y2 |-> e.y1]

C21_WorldSamplerReadsInBounds ==
    /\ last = "GetVelocityXAtWorldPos" =>
           \A n \in 1 .. Len(calls) :
               /\ calls[n][1] \in 0 .. (gridSize - 1)
               /\ calls[n][2] \in 0 .. gridSize
    /\ last = "GetVelocityYAtWorldPos" =>
           \A n \in 1 .. Len(calls) :
               /\ calls[n][1] \in 0 .. gridSize
               /\ calls[n][2] \in 0 .. (gridSize - 1)


\* x moved onto the nearest point of lo..hi.
Clamped(x, lo, hi) == IF x < lo THEN lo ELSE IF x > hi THEN hi ELSE x

\* The bilinear interpolation of arr at column coordinate cx and row
\* coordinate cy, both inside the range of the samples (0..maxCol and
\* 0..maxRow): the four samples around the position, weighted by the
\* fractional parts.
StatedBilinear(arr, cx, cy, maxCol, maxRow) ==
    LET col == cx \div Scale
        row == cy \div Scale
        colNext == IF col < maxCol THEN col + 1 ELSE col
        rowNext == IF row < maxRow THEN row + 1 ELSE row
        tx == cx - col * Scale
        ty == cy - row * Scale
        lower == arr[row][col] + Mul(arr[row][colNext] - arr[row][col], tx)
        upper == arr[rowNext][col]
                     + Mul(arr[rowNext][colNext] - arr[rowNext][col], tx)
    IN  lower + Mul(upper - lower, ty)

\* C22: a local-position sampler called at a position outside the range of
\* its samples returns the interpolated value at that position clamped
\* onto the nearest edge of the range (constant extrapolation).
C22_ConstantExtrapolation ==
    /\ last = "GetVelocityXAtLocalPos" =>
           /\ ret.defined
           /\ ret.value =
                  StatedBilinear(horizontalArrows,
                                 Clamped(arg[1], 0, gridSize * Scale),
                                 Clamped(arg[2] - Half, 0,
                                         (gridSize - 1) * Scale),
                                 gridSize, gridSize - 1)
    /\ last = "GetVelocityYAtLocalPos" =>
           /\ ret.defined
           /\ ret.value =
                  StatedBilinear(verticalArrows,
                                 Clamped(arg[1] - Half, 0,
                                         (gridSize - 1) * Scale),
                                 Clamped(arg[2], 0, gridSize * Scale),
                                 gridSize - 1, gridSize)

\* A sampler is called outside its range where the edge samples are
\* not zero, and returns a value that is not zero.
C22_Witness ==
    \/ /\ last = "GetVelocityXAtLocalPos"
       /\ arg[1] > gridSize * Scale
       /\ arg[2] < Half
       /\ ret.value # 0
       /\ ret.value = horizontalArrows[0][gridSize]
    \/ /\ last = "GetVelocityYAtLocalPos"
       /\ arg[2] < 0
       /\ arg[1] \in Half .. ((gridSize - 1) * Scale + Half)
       /\ arg[1] % Scale # Half
       /\ ret.value # 0


\* C23: when the boundary faces (columns 0 and N of horizontalArrows, rows
\* 0 and N of verticalArrows) are all zero before AdvectVelocities, they
\* are all zero after it, whatever the interior velocities.
C23_AdvectKeepsZeroBoundary ==
    (last = "AdvectVelocities" /\ BoundaryZero(pre.h, pre.v)) =>
        BoundaryZero(horizontalArrows, verticalArrows)

\* AdvectVelocities has run on a field with zero boundary faces in which
\* the velocity along the wall at a boundary face moves that face's sample
\* position by more than a cell, and has changed interior faces.
C23_Witness ==
    /\ last = "AdvectVelocities"
    /\ BoundaryZero(pre.h, pre.v)
    /\ \E row \in Rows :
           Abs(Mul(DELTA_TIME,
                   StatedBilinear(pre.v, 0, row * Scale + Half,
                                  gridSize - 1, gridSize))) > Scale
    /\ \E row \in Rows, col \in 1 .. (gridSize - 1) :
           horizontalArrows[row][col] # pre.h[row][col]
    /\ \E row \in 1 .. (gridSize - 1), col \in Cols :
           verticalArrows[row][col] # pre.v[row][col]


\* The interpolated velocity (velX, velY) of the fields h, v at a position
\* inside the grid.
StatedVelocityAt(pos, h, v) ==
    [velX |-> StatedBilinear(h, Clamped(pos[1], 0, gridSize * Scale),
                             Clamped(pos[2] - Half, 0, (gridSize - 1) * Scale),
                             gridSize, gridSize - 1),
     velY |-> StatedBilinear(v, Clamped(pos[1] - Half, 0,
                                        (gridSize - 1) * Scale),
                             Clamped(pos[2], 0, gridSize * Scale),
                             gridSize - 1, gridSize)]

StillAt(pos, h, v) ==
    StatedVelocityAt(pos, h, v) = [velX |-> 0, velY |-> 0]

\* C24: GetVelocityYAtLocalPos at (col+0.5, row) returns
\* verticalArrows[row][col] and GetVelocityXAtLocalPos at (col, row+0.5)
\* returns horizontalArrows[row][col], for every sample of either array; and
\* AdvectVelocities leaves unchanged every sample at whose position the
\* velocity (velX, velY) is zero.
C24_SamplerReturnsStoredSample ==
    /\ last = "GetVelocityYAtLocalPos" =>
           /\ ret.defined
           /\ \A row \in Lines, col \in Cols :
                  arg = <<col * Scale + Half, row * Scale>> =>
                      ret.value = verticalArrows[row][col]
    /\ last = "GetVelocityXAtLocalPos" =>
           /\ ret.defined
           /\ \A row \in Rows, col \in Lines :
                  arg = <<col * Scale, row * Scale + Half>> =>
                      ret.value = horizontalArrows[row][col]
    /\ last = "AdvectVelocities" =>
           /\ \A row \in Lines, col \in Cols :
                  StillAt(<<col * Scale + Half, row * Scale>>, pre.h, pre.v)
                      => verticalArrows[row][col] = pre.v[row][col]
           /\ \A row \in Rows, col \in Lines :
                  StillAt(<<col * Scale, row * Scale + Half>>, pre.h, pre.v)
                      => horizontalArrows[row][col] = pre.h[row][col]

\* GetVelocityYAtLocalPos has been called at the position of the corner
\* sample verticalArrows[N][N-1], which is not zero and differs from the
\* sample beside it and from the one above it.
C24_Witness ==
    /\ last = "GetVelocityYAtLocalPos"
    /\ arg = <<(gridSize - 1) * Scale + Half, gridSize * Scale>>
    /\ ret.value # 0
    /\ verticalArrows[gridSize][gridSize - 1]
           # verticalArrows[gridSize][gridSize - 2]
    /\ verticalArrows[gridSize][gridSize - 1]
           # verticalArrows[gridSize - 1][gridSize - 1]


\* Other orders of visiting the cells 0 .. NumCells-1 of a loop nest: last
\* to first, column by column, and scattered.
ReverseOrder == [i \in 0 .. (NumCells - 1) |-> NumCells - 1 - i]
ColumnMajor ==
    [i \in 0 .. (NumCells - 1) |-> (i % gridSize) * gridSize + i \div gridSize]
Scattered == [i \in 0 .. (NumCells - 1) |-> (37 * i + 11) % NumCells]
Orders == {ReverseOrder, ColumnMajor, Scattered}

\* One colour phase with the cells visited in the given order.
RECURSIVE PhaseIn(_, _, _, _, _, _, _)
PhaseIn(order, st, h, v, parity, lo, hi) ==
    IF hi <= lo THEN st
    ELSE IF hi = lo + 1 THEN VisitCell(st, h, v, parity, order[lo])
    ELSE LET mid == (lo + hi) \div 2
             first == PhaseIn(order, st, h, v, parity, lo, mid)
         IN  IF Evaluated(first)
             THEN PhaseIn(order, first, h, v, parity, mid, hi)
             ELSE st

\* The pressures after a sweep whose first phase visits in order red and
\* whose second in order black.
SweepIn(red, black, cv, h, v) ==
    PhaseIn(black,
            PhaseIn(red, [cv |-> cv, calls |-> <<>>], h, v, 0, 0, NumCells),
            h, v, 1, 0, NumCells).cv

\* C25: every pressure CalculatePressure reads for a cell belongs to a cell
\* of the other colour, and a sweep whose phases visit their cells in any
\* other order leaves the same pressure array as SolvePressureRedBlack.
C25_OrderInsidePhaseIrrelevant ==
    last = "SolvePressureRedBlack" =>
        /\ \A row \in Rows, col \in Cols :
               \A cell \in PressureReads(row, col) :
                   Colour(cell) # Colour(<<row, col>>)
        /\ \A red \in Orders, black \in Orders :
               SweepIn(red, black, pre.cv, pre.h, pre.v) = cellValues

\* A sweep has run on non-zero pressures and has changed two cells of one
\* colour that touch at a corner, and their common neighbours.
C25_Witness ==
    /\ last = "SolvePressureRedBlack"
    /\ \E row \in 1 .. (gridSize - 2), col \in 1 .. (gridSize - 2) :
           /\ pre.cv[row][col] # 0
           /\ pre.cv[row - 1][col - 1] # 0
           /\ cellValues[row][col] # pre.cv[row][col]
           /\ cellValues[row - 1][col - 1] # pre.cv[row - 1][col - 1]
           /\ cellValues[row - 1][col] # pre.cv[row - 1][col]
           /\ cellValues[row][col - 1] # pre.cv[row][col - 1]


\* C26: CalculateVelocities and AdvectVelocities leave cellValues as it
\* was, so that in the widget's run a pressure value changes only in
\* SolvePressureRedBlack, ResetPressure and RandomiseVelocities.
C26_OnlyRelaxAndUserActionsWritePressure ==
    /\ last \in {"CalculateVelocities", "AdvectVelocities"} =>
           cellValues = pre.cv
    /\ cellValues # pre.cv =>
           last \in {"SolvePressureRedBlack", "ResetPressure",
                     "RandomiseVelocities"}

\* CalculateVelocities has run in a later tick on non-zero pressures and
\* changed both velocity arrays.
C26_Witness ==
    /\ last = "CalculateVelocities"
    /\ ticks >= 2
    /\ \E row \in Rows, col \in Cols : cellValues[row][col] # 0
    /\ horizontalArrows # pre.h
    /\ verticalArrows # pre.v


\* The magnitude (Math.random() - 0.5) * 0.8 of the k-th draw.
StatedMagnitude(seed, k) == Mul(MathRandom(seed, k) - Half, 800)

\* C27: after RandomiseVelocities every pressure entry is zero and every
\* entry of horizontalArrows and verticalArrows, boundary faces included,
\* holds a magnitude m drawn in the call, -0.4 <= m < 0.4, whatever it held
\* before: the one drawn last for its face.
C27_RandomiseAssignsEveryFace ==
    last = "RandomiseVelocities" =>
        /\ \A row \in Rows, col \in Cols : cellValues[row][col] = 0
        /\ \A row \in Rows, col \in Lines :
               /\ horizontalArrows[row][col] >= -400
               /\ horizontalArrows[row][col] < 400
        /\ \A row \in Lines, col \in Cols :
               /\ verticalArrows[row][col] >= -400
               /\ verticalArrows[row][col] < 400
        /\ \E seed \in Seeds :
               /\ \A row \in Rows, col \in Lines :
                      horizontalArrows[row][col] =
                          StatedMagnitude(seed,
                                          2 * HorizontalFace(row, col) + 1)
               /\ \A row \in Lines, col \in Cols :
                      verticalArrows[row][col] =
                          StatedMagnitude(seed, 2 * VerticalFace(row, col) + 1)

\* RandomiseVelocities has run on arrays whose velocities were all 62.5,
\* far out of the range of the magnitudes, and has left non-zero magnitudes
\* on boundary faces.
C27_Witness ==
    /\ last = "RandomiseVelocities"
    /\ \A row \in Rows, col \in Lines : pre.h[row][col] = 62500
    /\ \A row \in Lines, col \in Cols : pre.v[row][col] = 62500
    /\ horizontalArrows[0][gridSize] # 0
    /\ verticalArrows[gridSize][0] # 0


\* The end point start + velocity * cellSize along the axis of face f, the
\* velocity being the face's entry of v (vertical faces) or h (horizontal
\* faces).
StatedEnd(h, v, f) ==
    LET e == Face(f)
    IN  IF e.type = "vertical"
        THEN [x2 |-> e.x1, y2 |-> e.y1 + Mul(v[e.lineIdx][e.col], cellSize)]
        ELSE [x2 |-> e.x1 + Mul(h[e.row][e.lineIdx], cellSize), y2 |-> e.y1]

\* C28: after CalculateVelocities the visible line and the hit-area line of
\* every face end at start + velocity * cellSize along the face's axis and
\* at the start coordinate on the other axis, the velocity being the one
\* the arrays hold after the call.
C28_ProjectDrawsTheArrays ==
    last = "CalculateVelocities" =>
        \A f \in Faces :
            /\ svg[f].line = StatedEnd(horizontalArrows, verticalArrows, f)
            /\ svg[f].hit = StatedEnd(horizontalArrows, verticalArrows, f)

\* CalculateVelocities has changed the velocity of an interior vertical and
\* an interior horizontal face, and their arrows have a length.
C28_Witness ==
    /\ last = "CalculateVelocities"
    /\ verticalArrows[3][2] # pre.v[3][2]
    /\ horizontalArrows[2][3] # pre.h[2][3]
    /\ svg[VerticalFace(3, 2)].line.y2 # Face(VerticalFace(3, 2)).y1
    /\ svg[HorizontalFace(2, 3)].hit.x2 # Face(HorizontalFace(2, 3)).x1


\* C29: after RandomiseVelocities the visible line of every face ends at
\* its start plus (the velocity the arrays hold for the face) * cellSize
\* along the face's axis.
C29_RandomiseDrawsTheArrays ==
    last = "RandomiseVelocities" =>
        \A f \in Faces :
            svg[f].line = StatedEnd(horizontalArrows, verticalArrows, f)

\* The end point 15 px from the start along the axis of face f.
StatedMinimumEnd(f) ==
    LET e == Face(f)
    IN  IF e.type = "vertical"
        THEN [x2 |-> e.x1, y2 |-> e.y1 + 15 * Scale]
        ELSE [x2 |-> e.x1 + 15 * Scale, y2 |-> e.y1]

\* C30: after ResetPressure every visible line ends where it starts and
\* every hit-area line ends 15 px from its start along its face's axis.
C30_ResetLeavesMinimumHitArea ==
    last = "ResetPressure" =>
        \A f \in Faces :
            /\ svg[f].line = [x2 |-> Face(f).x1, y2 |-> Face(f).y1]
            /\ svg[f].hit = StatedMinimumEnd(f)

====
